---- MODULE Spec2Model ----
(***************************************************************************)
(* Motion-gated recognition and attendance debounce of the face            *)
(* recognition attendance application.                                     *)
(*                                                                         *)
(* Modelled objects: MainWindow (src/src/ui/main_window.py), VideoPanel    *)
(* (src/src/ui/video_panel.py), ImprovedFaceProcessor                      *)
(* (src/src/processing/face_processor.py), EmployeeDatabase                *)
(* (src/src/database/employee_database.py) and the manual attendance       *)
(* dialog (src/src/ui/dialogs.py).                                         *)
(*                                                                         *)
(* Threads: the Tk main thread runs the button handlers (each handler runs *)
(* to completion before the next one); every start_recognition creates one *)
(* daemon thread running video_processing_loop.  A video thread is cut     *)
(* into steps at the places where it reads or writes state shared with     *)
(* other threads; record_attendance is cut between find_one and insert_one *)
(* because the two are separate database operations.                       *)
(*                                                                         *)
(* Time is time.time() / datetime.now() in whole seconds.  The database is *)
(* available: find_one and insert_one fail only with DuplicateKeyError.    *)
(* Confidences and distances are in tenths (6 stands for 0.6).             *)
(***************************************************************************)
EXTENDS Integers, Sequences, FiniteSets, TLC

\* ---------------------------------------------------------------- bounds
MaxThreads == 2      \* start_recognition calls that create a thread
MaxFaces == 1        \* faces in one frame
MaxDay == 1          \* calendar days after the first one
MaxPhones == 2       \* distinct phone numbers typed into the employee dialog
MaxEvents == 3
MaxSamples == 2
MaxEnrollSeconds == 13
MaxSystemSeconds == 3
MaxStarts == 2
MaxGetters == 2
MaxManagers == 3
MaxBoxes == 3
MaxRegions == 3
FrameWindow == 4       \* rows of the analytics engine's events table

\* ------------------------------------------------------ program constants
DebounceWindow == 30         \* main_window.py:164
ConfidenceThreshold == 6     \* main_window.py:150  (0.6)
MotionCooldown == 3          \* video_panel.py:29   (3.0)
MotionThreshold == 25        \* motion_detector.py:6  (threshold=25)
MinArea == 500               \* motion_detector.py:6  (min_area=500)
NumSamples == 5              \* dialogs.py:165  (num_samples=5)
SampleDelay == 2             \* face_enrollment.py:97  (sample_delay=2.0)
RecognitionTolerance == 6    \* video_panel.py:153  (threshold=0.6)

SecondsPerDay == 24 * 60 * 60

Unknown == "Unknown"
NoTime == -1
NoId == 0

\* Enrolled face samples, in the order get_all_faces returns them: entry i of
\* known_names is the name of entry i of known_encodings
\* (MainWindow.load_known_faces).  bob has face samples but no employee.
KnownNames == <<"alice", "bob">>

\* employee_map built by load_known_faces: face name -> employee_id
EmployeeMap == [n \in {"alice"} |-> "E1"]

\* employees collection: employee_id -> work_start_time "09:00" as (hour, minute)
Employees == [e \in {"E1"} |-> <<9, 0>>]

Threads == 1..MaxThreads

\* The instants at which the clock is observed.  The first is 08:59:30 of
\* the first day, so that 09:00:00 lies a debounce window later.
\* Instants: one morning, at the distances where the loop's comparisons
\* change outcome (cooldown, cooldown + 1, debounce, debounce + 1).
\* DayInstants: every modelled day at 08:59:30, 09:00:00 and 09:00:01.
FirstInstant == 9 * 60 * 60 - DebounceWindow
Instants ==
  {FirstInstant + o : o \in {0, MotionCooldown, MotionCooldown + 1,
                              DebounceWindow, DebounceWindow + 1}}
DayInstants ==
  {d * SecondsPerDay + FirstInstant + o :
     d \in 0..MaxDay, o \in {0, DebounceWindow, DebounceWindow + 1}}

\* A face in a frame, as the distances of its encoding to each known encoding:
\* near (confidence 0.7), matching with confidence exactly 0.6, and too far.
Distances == {3, 4, 7}

VARIABLES
  now,                    \* wall clock, seconds
  rootAlive,              \* the Tk root exists (not yet destroyed)
  is_running,             \* MainWindow.is_running
  started,                \* number of video threads created so far
  video_stream,           \* VideoPanel.video_stream is not None
  motion_detector,        \* "none" | "fresh" (no prev_frame) | "primed"
  last_motion_time,       \* VideoPanel.last_motion_time
  face_detection_active,  \* VideoPanel.face_detection_active
  known_names,            \* MainWindow.known_names
  known_encodings,        \* MainWindow.known_encodings: each encoding stands as
                          \* the face name it was stored under
  last_recognition_time,  \* MainWindow.last_recognition_time (NoTime: absent)
  attendance,             \* attendance collection: set of documents
  pc,                     \* per video thread: position in video_processing_loop
  motion_detected,        \* per video thread: process_frame's local
  arg_encodings,          \* per video thread: process_frame's known_encodings
  arg_names,              \* per video thread: process_frame's known_names
  results,                \* per video thread: recognition_results still to handle
  enter_time,             \* per caller: record_attendance's enter_time
  att_ret,                \* per caller: record_attendance's return value
  gpc,                    \* Tk main thread: position in record_selected
  g_emp,                  \* Tk main thread: selected employee
  ui_ops,                 \* history: how video threads touched widgets
  motion_seen,            \* history: some detect() returned motion
  recognition_invoked,    \* history: recognize_faces was called
  last_write,             \* history: enter_time of the last record_attendance
                          \* call a video thread made that returned normally
  gate_after,             \* history, per video thread: face_detection_active
                          \* as the thread's own gating update left it
  recognized,             \* history, per video thread: recognize_faces was
                          \* called on the frame the thread is handling
  db_client,              \* the global DatabaseManager holds an open client
  employees_collection,   \* employees collection: set of documents
  add_call,               \* EmployeeDialog.add_employee: the last click, its
                          \* entries and how it ended
  faces_collection,       \* faces collection: sequence of face samples
  link_call,              \* link_face_to_employee: the last call, its
                          \* arguments and how it ended
  engine,                 \* SparkAnalyticsEngine: "none" | "built" | "loaded"
  use_spark,              \* SparkAnalyticsEngine.use_spark
  spark,                  \* SparkAnalyticsEngine.spark is not None
  events_df,              \* SparkAnalyticsEngine.events_df: sequence of rows
  peak_hours,             \* what the last analyze_peak_hours call returned
  peak_path,              \* history: the path that call took
  rec_pc,                 \* recognize_faces on one frame: "input" | "done"
  rec_faces,              \* that frame's faces, as distances to the encodings
  rec_names,              \* the known_names (and encodings) of that call
  rec_results,            \* what that call returned
  enroll_pc,              \* enroll_person: "idle" | "loop" | "captured" | "raised"
  enroll_cap,             \* enroll_person's VideoStream holds the camera (cap)
  sample_count,           \* enroll_person's sample_count
  last_sample_time,       \* enroll_person's last_sample_time
  enroll_time,            \* time.time() during enroll_person, seconds
  enroll_frame,           \* history: the last frame enroll_person handled
  sys_pc,                 \* IntegratedSystem.run: "idle" | "delay" | "loop" | "returned"
  sys_running,            \* IntegratedSystem.running
  sys_duration,           \* run's duration argument (NoDuration: None)
  sys_elapsed,            \* time.time() - start_time, followed up to MaxSystemSeconds
  frames_processed,       \* processor.stats['frames_processed'], modulo FrameWindow
  sys_stop,               \* history: stop() was called after run() was entered
  vp_running,             \* VideoProcessor.running
  vp_started,             \* number of processing threads VideoProcessor.start created
  vp_alive,               \* number of threads still inside _processing_loop
  vp_frames,              \* frames shown by _processing_loop, modulo FrameWindow
  vp_wait,                \* the caller waiting for running to become false:
                          \* "none" | "waiting" | "released"
  vp_last,                \* history: the last VideoProcessor operation
  db_manager,             \* the module global _db_manager (NoManager: None)
  dm_created,             \* number of DatabaseManager instances constructed so far
  dm_open,                \* the DatabaseManager instances whose client is connected
  dm_pc,                  \* per caller of get_database_manager: "idle" | "create"
  dm_returned,            \* history: instances returned since the last close_database_manager call
  dm_last,                \* history: the last manager operation completed
  ov_pc,                  \* remove_overlapping_faces under study: "input" | "once" | "twice"
  ov_faces,               \* the faces passed to remove_overlapping_faces
  ov_filtered,            \* what the call returned
  ov_again,               \* what a second call on that result returned
  md_prev,                \* MotionDetector.prev_frame (NoGray: None)
  md_flag,                \* MotionDetector.motion_detected
  md_ret,                 \* what the last detect call returned
  md_frame,               \* history: the blurred gray frame of the last detect call
  md_before               \* history: prev_frame when the last detect call began

vars == <<now, rootAlive, is_running, started, video_stream, motion_detector,
          last_motion_time, face_detection_active, known_names, known_encodings,
          last_recognition_time, attendance, pc, motion_detected,
          arg_encodings, arg_names, results,
          enter_time, att_ret, gpc, g_emp, ui_ops, motion_seen,
          recognition_invoked, last_write, gate_after, recognized, db_client,
          employees_collection, add_call, faces_collection, link_call,
          engine, use_spark, spark, events_df, peak_hours, peak_path,
          rec_pc, rec_faces, rec_names, rec_results,
          enroll_pc, enroll_cap, sample_count, last_sample_time, enroll_time, enroll_frame,
          sys_pc, sys_running, sys_duration, sys_elapsed, frames_processed, sys_stop,
          vp_running, vp_started, vp_alive, vp_frames, vp_wait, vp_last,
          db_manager, dm_created, dm_open, dm_pc, dm_returned, dm_last,
          ov_pc, ov_faces, ov_filtered, ov_again,
          md_prev, md_flag, md_ret, md_frame, md_before>>

\* The state of the recognition window, and the state of the other parts
mainVars == <<now, rootAlive, is_running, started, video_stream, motion_detector,
              last_motion_time, face_detection_active, known_names, known_encodings,
              last_recognition_time, attendance, pc, motion_detected,
              arg_encodings, arg_names, results,
              enter_time, att_ret, gpc, g_emp, ui_ops, motion_seen,
              recognition_invoked, last_write, gate_after, recognized, db_client>>
employeeVars == <<employees_collection, add_call, faces_collection, link_call>>
analyticsVars == <<engine, use_spark, spark, events_df, peak_hours, peak_path>>
recogVars == <<rec_pc, rec_faces, rec_names, rec_results>>
enrollVars == <<enroll_pc, enroll_cap, sample_count, last_sample_time, enroll_time, enroll_frame>>
systemVars == <<sys_pc, sys_running, sys_duration, sys_elapsed, frames_processed, sys_stop>>
processorVars == <<vp_running, vp_started, vp_alive, vp_frames, vp_wait, vp_last>>
managerVars == <<db_manager, dm_created, dm_open, dm_pc, dm_returned, dm_last>>
overlapVars == <<ov_pc, ov_faces, ov_filtered, ov_again>>
motionVars == <<md_prev, md_flag, md_ret, md_frame, md_before>>
sideVars == <<employeeVars, analyticsVars, recogVars, enrollVars, systemVars,
              processorVars, managerVars, overlapVars, motionVars>>
\* Everything but one part
exceptEmployees == <<mainVars, analyticsVars, recogVars, enrollVars,
                     systemVars, processorVars, managerVars, overlapVars,
                     motionVars>>
exceptAnalytics == <<mainVars, employeeVars, recogVars, enrollVars,
                     systemVars, processorVars, managerVars, overlapVars,
                     motionVars>>
exceptRecognize == <<mainVars, employeeVars, analyticsVars, enrollVars,
                     systemVars, processorVars, managerVars, overlapVars,
                     motionVars>>
exceptEnrollment == <<mainVars, employeeVars, analyticsVars, recogVars,
                      systemVars, processorVars, managerVars, overlapVars,
                      motionVars>>
exceptSystem == <<mainVars, employeeVars, analyticsVars, recogVars,
                  enrollVars, processorVars, managerVars, overlapVars,
                  motionVars>>
exceptProcessor == <<mainVars, employeeVars, analyticsVars, recogVars,
                     enrollVars, systemVars, managerVars, overlapVars,
                     motionVars>>
exceptManager == <<mainVars, employeeVars, analyticsVars, recogVars,
                   enrollVars, systemVars, processorVars, overlapVars,
                   motionVars>>
exceptOverlap == <<mainVars, employeeVars, analyticsVars, recogVars,
                   enrollVars, systemVars, processorVars, managerVars,
                   motionVars>>
exceptMotion == <<mainVars, employeeVars, analyticsVars, recogVars,
                  enrollVars, systemVars, processorVars, managerVars,
                  overlapVars>>

Gui == 0

\* _db_manager = None, and the threads that call get_database_manager (the
\* Tk thread at start-up, the enrollment and analytics worker threads)
NoManager == 0
Getters == 1..MaxGetters
Callers == Threads \cup {Gui}

\* ------------------------------------------------------------ pure parts

\* np.argmin: the first index holding the minimum distance
ArgMin(d) ==
  CHOOSE i \in 1..Len(d) :
    /\ \A j \in 1..Len(d) : d[i] <= d[j]
    /\ \A j \in 1..(i - 1) : d[j] > d[i]

\* Mutant of RecognizeFace: the first encoding within the tolerance names the
\* face, not the nearest one
RecognizeFace_FirstMatch(d, names, tolerance) ==
  IF \E i \in 1..Len(d) : d[i] <= tolerance
  THEN LET first == CHOOSE i \in 1..Len(d) :
                      d[i] <= tolerance /\ \A j \in 1..(i - 1) : d[j] > tolerance
       IN [name |-> names[first], confidence |-> 10 - d[first]]
  ELSE [name |-> Unknown, confidence |-> 0]

\* ImprovedFaceProcessor._process_recognition, for one face: compare_faces
\* matches an encoding when its distance is within the tolerance; the nearest
\* encoding names the face if it matches, with confidence 1 - distance.
RecognizeFace(d, names, tolerance) ==
  IF Len(d) > 0 /\ d[ArgMin(d)] <= tolerance
  THEN [name |-> names[ArgMin(d)], confidence |-> 10 - d[ArgMin(d)]]
  ELSE [name |-> Unknown, confidence |-> 0]

\* ImprovedFaceProcessor._process_recognition: one result per face, in order
ProcessRecognition(faces, names, tolerance) ==
  [i \in 1..Len(faces) |-> RecognizeFace(faces[i], names, tolerance)]

\* ImprovedFaceProcessor._process_detection_only: every face is Unknown
ProcessDetectionOnly(faces) ==
  [i \in 1..Len(faces) |-> [name |-> Unknown, confidence |-> 0]]

\* ImprovedFaceProcessor.recognize_faces, with the face_recognition library
\* present (use_face_recognition): recognition when there are known
\* encodings, detection only when there are none
RecognizeFaces(faces, encodings, names, tolerance) ==
  IF encodings /= <<>>
  THEN ProcessRecognition(faces, names, tolerance)
  ELSE ProcessDetectionOnly(faces)

\* The face lists a frame can show, given the known encodings
FrameFaces(encodings) ==
  UNION {[1..k -> [1..Len(encodings) -> Distances]] : k \in 0..MaxFaces}

\* Mutant of GateActive: the flag drops when the cooldown is reached (>= for >)
GateActive_AtCooldown(motion, t, last, active) ==
  IF motion THEN TRUE
  ELSE IF t - last >= MotionCooldown THEN FALSE
  ELSE active

\* VideoPanel.process_frame: the new face_detection_active
GateActive(motion, t, last, active) ==
  IF motion THEN TRUE
  ELSE IF t - last > MotionCooldown THEN FALSE
  ELSE active

\* VideoPanel.process_frame: the new last_motion_time
GateLastMotion(motion, t, last) == IF motion THEN t ELSE last

\* Mutant of AcceptedResult: a confidence equal to the threshold passes
AcceptedResult_AtThreshold(r) ==
  r.name /= Unknown /\ r.confidence >= ConfidenceThreshold

\* MainWindow.video_processing_loop: the filter in front of the debounce check
AcceptedResult(r) == r.name /= Unknown /\ r.confidence > ConfidenceThreshold

\* MainWindow.should_record_attendance
ShouldRecordAttendance(name, t, lrt) ==
  IF lrt[name] /= NoTime THEN t - lrt[name] > DebounceWindow ELSE TRUE

\* record_attendance: datetime.combine(enter_time.date(), datetime.min.time())
AttendanceDate(t) == t - (t % SecondsPerDay)

\* record_attendance: time(work_start_hour, work_start_minute), in seconds
WorkStartTime(e) == Employees[e][1] * 60 * 60 + Employees[e][2] * 60

\* Mutant of IsLate: late from the start time on (>= for >)
IsLate_AtOrAfter(e, t) == (t % SecondsPerDay) >= WorkStartTime(e)

\* record_attendance: is_late = enter_time.time() > work_start_time
IsLate(e, t) == (t % SecondsPerDay) > WorkStartTime(e)

\* attendance_collection.find_one({"employee_id": e, "date": d})
FindOne(coll, e, d) == {r \in coll : r.employee_id = e /\ r.date = d}

\* Mutant of UniqueIndexAccepts: the index is not unique
UniqueIndexAccepts_NoIndex(coll, doc) == TRUE

\* The unique index on (employee_id, date) created by _create_indexes:
\* whether the collection accepts the document
UniqueIndexAccepts(coll, doc) ==
  \A r \in coll : ~(r.employee_id = doc.employee_id /\ r.date = doc.date)

\* record_attendance: the attendance document; _id is the insertion number
AttendanceDoc(coll, e, t) ==
  [id |-> Cardinality(coll) + 1, employee_id |-> e, date |-> AttendanceDate(t),
   enter_time |-> t, is_late |-> IsLate(e, t)]

\* add_employee(phone=None): the phone entry was left empty
NoPhone == 0
Phones == 1..MaxPhones

\* The name entry of the employee dialog; "" is an empty entry
EmployeeNames == {"ann", "ben"}

\* No click on "Add Employee" yet
NoCall == [name |-> "", phone |-> NoPhone, outcome |-> "none"]

\* add_employee, lines 52-62: the document always carries the key "phone",
\* with value None when no phone was given; employee_id stands for the uuid
\* prefix, taken to be fresh
EmployeeDoc(coll, name, phone) ==
  [employee_id |-> Cardinality(coll) + 1, name |-> name, phone |-> phone,
   face_enrolled |-> FALSE]

\* _create_indexes: {"keys": "phone", "unique": True, "sparse": True}.  A
\* sparse index leaves out the documents that lack the key; a document whose
\* key is present with value null is indexed, under the key null.  Every
\* employee document has the key, so every document is indexed.
PhoneIndexAccepts(coll, doc) == \A r \in coll : r.phone /= doc.phone

\* A face sample without the key employee_id
NoEmployee == 0

\* The employee ids a caller can pass: at most MaxPhones + 1 employees can be
\* stored, so the last id is in use only when the collection is full
EmployeeIds == 1..(MaxPhones + 1)

\* No link_face_to_employee call yet
NoLink == [employee_id |-> NoEmployee, face_name |-> "", outcome |-> "none", modified |-> 0]

\* FaceDatabase.add_face as enroll_person calls it: name and encoding, no
\* employee_id
FaceDoc(name) == [name |-> name, employee_id |-> NoEmployee]

\* EmployeeDatabase.get_employee: find_one by employee_id
GetEmployee(coll, employee_id) == {r \in coll : r.employee_id = employee_id}

\* update_many({"name": face_name}, {"$set": {"employee_id": employee_id}})
LinkedFaces(faces, employee_id, face_name) ==
  [i \in DOMAIN faces |->
     IF faces[i].name = face_name
     THEN [faces[i] EXCEPT !.employee_id = employee_id]
     ELSE faces[i]]

\* Mutant of ModifiedCount: the update reports no modified sample
ModifiedCount_Zero(faces, employee_id, face_name) == 0

\* result.modified_count: the matched samples whose employee_id changed
ModifiedCount(faces, employee_id, face_name) ==
  Cardinality({i \in DOMAIN faces :
                 faces[i].name = face_name /\ faces[i].employee_id /= employee_id})

\* update_one({"employee_id": employee_id}, {"$set": {"face_enrolled": True}})
MarkEnrolled(coll, employee_id) ==
  {IF r.employee_id = employee_id THEN [r EXCEPT !.face_enrolled = TRUE] ELSE r :
     r \in coll}

\* ------------------------------------------------- face enrollment

\* time.time() when enroll_person opens the camera, and the seconds that can
\* pass between two frames
EnrollEpoch == 10
FrameGaps == 0..(SampleDelay + 1)

\* No frame handled yet
NoFrame == [ret |-> FALSE, faces |-> 0, quit |-> FALSE, time |-> 0, captured |-> FALSE]

\* Mutant of CaptureSample: a sample is taken when the delay is reached
CaptureSample_AtDelay(faces, current_time, last, delay) ==
  faces = 1 /\ current_time - last >= delay

\* enroll_person, lines 141-142: exactly one face and more than sample_delay
\* since the last sample
CaptureSample(faces, current_time, last, delay) ==
  faces = 1 /\ current_time - last > delay

\* ------------------------------------------------- the integrated system

\* run(duration=None), and the durations a caller passes
NoDuration == 0
RunDurations == {NoDuration, MaxSystemSeconds - 1}

\* run, lines 188-190: the duration limit is reached
DurationReached(duration, elapsed) == duration /= NoDuration /\ elapsed > duration

\* ------------------------------------------------- motion detection

\* A blurred grayscale frame: the gray level of each of a few regions that
\* lie apart, so that a change in one region gives one contour.  The levels
\* differ by nothing, by exactly the threshold, and by more.
Regions == 1..MaxRegions
GrayLevels == {0, MotionThreshold, 60}
GrayFrames == [Regions -> GrayLevels]
NoGray == <<>>

\* cv2.contourArea of the contour a change in region r gives: one below
\* min_area, one exactly min_area, the others above
ContourArea(r) == MinArea + r - 2

\* cv2.absdiff
AbsDiff(a, b) == IF a >= b THEN a - b ELSE b - a

\* detect, lines 43-52: the regions where the difference exceeds the threshold
\* (cv2.threshold with THRESH_BINARY sets the pixels above it)
Contours(prev, gray) == {r \in Regions : AbsDiff(prev[r], gray[r]) > MotionThreshold}

\* Mutant of MotionIn: the flag is not reset before the contours are checked
MotionIn_CarriedOver(prev, gray) ==
  md_flag \/ \E r \in Contours(prev, gray) : ~(ContourArea(r) < MinArea)

\* detect, lines 55-63: the flag is reset, then set by every contour that is
\* not smaller than min_area
MotionIn(prev, gray) ==
  \E r \in Contours(prev, gray) : ~(ContourArea(r) < MinArea)

\* ------------------------------------------------- overlapping detections

\* Detections (x, y, w, h, confidence): squares of side 13 on a grid where
\* two of them overlap with IoU 1 (same place), 7/19, exactly 6/20 = 0.3,
\* 1/25 or not at all; confidence in tenths
DetectedFaces == [x : {0, 6, 7, 12}, y : {0, 13}, w : {13}, h : {13}, conf : {5, 9}]

Max2(a, b) == IF a >= b THEN a ELSE b
Min2(a, b) == IF a <= b THEN a ELSE b

\* remove_overlapping_faces, lines 172-178: the intersection rectangle
Intersection(a, b) ==
  LET xi1 == Max2(a.x, b.x)
      yi1 == Max2(a.y, b.y)
      xi2 == Min2(a.x + a.w, b.x + b.w)
      yi2 == Min2(a.y + a.h, b.y + b.h)
  IN IF xi2 > xi1 /\ yi2 > yi1 THEN (xi2 - xi1) * (yi2 - yi1) ELSE 0

Union(a, b) == a.w * a.h + b.w * b.h - Intersection(a, b)

\* Mutant of Overlapping: the threshold itself counts as overlap
Overlapping_AtThreshold(a, b) ==
  /\ Intersection(a, b) > 0
  /\ Union(a, b) > 0
  /\ 10 * Intersection(a, b) >= 3 * Union(a, b)

\* lines 177-183: iou = intersection / union > 0.3
Overlapping(a, b) ==
  /\ Intersection(a, b) > 0
  /\ Union(a, b) > 0
  /\ 10 * Intersection(a, b) > 3 * Union(a, b)

\* sorted(faces, key=confidence, reverse=True): stable, so faces of equal
\* confidence keep their order
InsertByConfidence(sorted, f) ==
  LET k == Cardinality({i \in 1..Len(sorted) : sorted[i].conf >= f.conf})
  IN SubSeq(sorted, 1, k) \o <<f>> \o SubSeq(sorted, k + 1, Len(sorted))

RECURSIVE SortByConfidence(_)
SortByConfidence(faces) ==
  IF faces = <<>>
  THEN <<>>
  ELSE InsertByConfidence(SortByConfidence(SubSeq(faces, 1, Len(faces) - 1)),
                          faces[Len(faces)])

\* The scan: a face is kept unless it overlaps a face kept before it
RECURSIVE FilterFaces(_, _)
FilterFaces(faces, filtered) ==
  IF faces = <<>>
  THEN filtered
  ELSE FilterFaces(Tail(faces),
                   IF \E i \in 1..Len(filtered) : Overlapping(Head(faces), filtered[i])
                   THEN filtered
                   ELSE Append(filtered, Head(faces)))

\* EnhancedFaceProcessor.remove_overlapping_faces
RemoveOverlappingFaces(faces) ==
  IF Len(faces) <= 1 THEN faces ELSE FilterFaces(SortByConfidence(faces), <<>>)

\* ------------------------------------------- analytics: the peak hours report

\* The columns hour, name and confidence of an events row (confidence in
\* tenths), as record_recognition_event and _create_sample_data write them
EventRows == [hour : {8, 9}, name : {"alice", "bob"}, confidence : {7, 9}]

\* The events tables load_data_from_mongodb can leave in events_df
EventTables == UNION {[1..k -> EventRows] : k \in 0..MaxEvents}

\* A sequence holding the numbers of S in ascending order
RECURSIVE Ascending(_)
Ascending(S) ==
  IF S = {} THEN <<>>
  ELSE LET m == CHOOSE x \in S : \A y \in S : x <= y
       IN <<m>> \o Ascending(S \ {m})

\* groupBy("hour") / groupby('hour'): the row numbers of one group
HourGroup(df, h) == {i \in DOMAIN df : df[i].hour = h}

RECURSIVE ConfidenceSum(_, _)
ConfidenceSum(df, rows) ==
  IF rows = {} THEN 0
  ELSE LET i == CHOOSE r \in rows : TRUE
       IN df[i].confidence + ConfidenceSum(df, rows \ {i})

\* The mean of n confidences with sum total, rounded to three decimals:
\* .round(3), in thousandths
RoundedMean(total, n) == (2 * 100 * total + n) \div (2 * n)

\* Mutant of SparkPeakHours: count("name") over distinct names
SparkPeakHours_CountDistinct(df) ==
  LET hours == Ascending({df[i].hour : i \in DOMAIN df}) IN
  [k \in DOMAIN hours |->
     LET g == HourGroup(df, hours[k]) IN
     [hour |-> hours[k],
      recognition_count |-> Cardinality({df[i].name : i \in g}),
      avg_confidence |-> RoundedMean(ConfidenceSum(df, g), Cardinality(g)),
      unique_people |-> Cardinality({df[i].name : i \in g})]]

\* analyze_peak_hours, lines 258-284: groupBy("hour").agg(count("*"),
\* avg("confidence"), countDistinct("name")).orderBy("hour"), then the types
\* and round(3)
SparkPeakHours(df) ==
  LET hours == Ascending({df[i].hour : i \in DOMAIN df}) IN
  [k \in DOMAIN hours |->
     LET g == HourGroup(df, hours[k]) IN
     [hour |-> hours[k],
      recognition_count |-> Cardinality(g),
      avg_confidence |-> RoundedMean(ConfidenceSum(df, g), Cardinality(g)),
      unique_people |-> Cardinality({df[i].name : i \in g})]]

\* analyze_peak_hours, lines 290-306: groupby('hour').agg({'name': ['count',
\* 'nunique'], 'confidence': 'mean'}).round(3); groups come sorted by hour;
\* 'count' counts the rows whose name is present, which is every row
PandasPeakHours(df) ==
  LET hours == Ascending({df[i].hour : i \in DOMAIN df}) IN
  [k \in DOMAIN hours |->
     LET g == HourGroup(df, hours[k])
         named == {i \in g : df[i].name \in {r.name : r \in EventRows}}
     IN
     [hour |-> hours[k],
      recognition_count |-> Cardinality(named),
      unique_people |-> Cardinality({df[i].name : i \in named}),
      avg_confidence |-> RoundedMean(ConfidenceSum(df, g), Cardinality(g))]]

\* Mutant of UseSparkAfterFailure: the flag is left as it was
UseSparkAfterFailure_Kept == TRUE

\* analyze_peak_hours, line 288: self.use_spark = False in the handler
UseSparkAfterFailure == FALSE

\* A video thread is inside video_processing_loop
Alive(t) == pc[t] \notin {"idle", "dead"}

MappedNames == DOMAIN EmployeeMap

\* What get_all_faces can return: the samples stored so far, in storage order
FaceLists == {SubSeq(KnownNames, 1, k) : k \in 0..Len(KnownNames)}
AllNames == {KnownNames[i] : i \in 1..Len(KnownNames)}

\* ------------------------------------------------------------------ Init

\* MainWindow.__init__ and VideoPanel.__init__; the faces were enrolled (or
\* not) before the application started.  exited: the number of earlier
\* sessions (start_recognition, stop_recognition, thread gone) left behind.
InitProgram(exited) ==
  /\ now = FirstInstant
  /\ rootAlive = TRUE
  /\ is_running = FALSE
  /\ started = exited
  /\ video_stream = FALSE
  /\ motion_detector = "none"
  /\ last_motion_time = 0
  /\ face_detection_active = FALSE
  /\ known_names \in {<<>>, KnownNames}
  /\ known_encodings = known_names
  /\ last_recognition_time = [n \in AllNames |-> NoTime]
  /\ attendance = {}
  /\ pc = [t \in Threads |-> IF t <= exited THEN "dead" ELSE "idle"]
  /\ motion_detected = [t \in Threads |-> FALSE]
  /\ arg_encodings = [t \in Threads |-> <<>>]
  /\ arg_names = [t \in Threads |-> <<>>]
  /\ results = [t \in Threads |-> <<>>]
  /\ enter_time = [c \in Callers |-> NoTime]
  /\ att_ret = [c \in Callers |-> NoId]
  /\ gpc = "idle"
  /\ g_emp = "E1"
  /\ ui_ops = {}
  /\ motion_seen = FALSE
  /\ recognition_invoked = FALSE
  /\ last_write = [n \in MappedNames |-> NoTime]
  /\ gate_after = [t \in Threads |-> FALSE]
  /\ recognized = [t \in Threads |-> FALSE]
  /\ db_client = TRUE
  /\ employees_collection = {}
  /\ add_call = NoCall
  /\ faces_collection = <<>>
  /\ link_call = NoLink
  /\ engine = "none"
  /\ use_spark = FALSE
  /\ spark = FALSE
  /\ events_df = <<>>
  /\ peak_hours = <<>>
  /\ peak_path = "none"
  /\ enroll_pc = "idle"
  /\ enroll_cap = FALSE
  /\ sample_count = 0
  /\ last_sample_time = 0
  /\ enroll_time = EnrollEpoch
  /\ enroll_frame = NoFrame
  /\ sys_pc = "idle"
  /\ sys_running = FALSE
  /\ sys_duration = NoDuration
  /\ sys_elapsed = 0
  /\ frames_processed = 0
  /\ sys_stop = FALSE
  /\ vp_running = FALSE
  /\ vp_started = 0
  /\ vp_alive = 0
  /\ vp_frames = 0
  /\ vp_wait = "none"
  /\ vp_last = "none"
  /\ db_manager = NoManager
  /\ dm_created = 0
  /\ dm_open = {}
  /\ dm_pc = [g \in Getters |-> "idle"]
  /\ dm_returned = {}
  /\ dm_last = "none"
  /\ md_prev = NoGray
  /\ md_flag = FALSE
  /\ md_ret = FALSE
  /\ md_frame = NoGray
  /\ md_before = NoGray

\* No recognize_faces call is under study
NoRecognizeCall ==
  /\ rec_pc = "done"
  /\ rec_faces = <<>>
  /\ rec_names = <<>>
  /\ rec_results = <<>>

\* No remove_overlapping_faces call is under study
NoOverlapCall ==
  /\ ov_pc = "twice"
  /\ ov_faces = <<>>
  /\ ov_filtered = <<>>
  /\ ov_again = <<>>

InitWith(exited) ==
  /\ InitProgram(exited)
  /\ NoRecognizeCall
  /\ NoOverlapCall

Init == InitWith(0)

\* All sessions but the last one are over
InitDays == InitWith(MaxThreads - 1)

dbVars == <<attendance>>
faceVars == <<known_names, known_encodings>>
frameVars == <<motion_detected, arg_encodings, arg_names>>
panelVars == <<video_stream, motion_detector, last_motion_time, face_detection_active>>
guiVars == <<gpc, g_emp>>
histVars == <<ui_ops, motion_seen, recognition_invoked, last_write, gate_after, recognized>>

\* ------------------------------------------------------- the clock

Tick(instants) ==
  /\ \E t \in instants : t > now /\ now' = t
  /\ UNCHANGED <<sideVars, db_client, rootAlive, is_running, started, faceVars,
                 last_recognition_time, pc, frameVars, results, enter_time, att_ret>>
  /\ UNCHANGED <<dbVars, panelVars, guiVars, histVars>>

\* ------------------------------------------- Tk main thread: the buttons

\* MainWindow.start_recognition with VideoPanel.start_video_processing.
\* camera: VideoStream(0).start() succeeds, or raises before video_stream is
\* assigned (the handler then shows an error and leaves is_running False).
StartRecognition ==
  /\ rootAlive /\ gpc = "idle"
  /\ IF is_running
     THEN UNCHANGED <<is_running, started, video_stream, motion_detector, pc>>
     ELSE \E camera \in BOOLEAN :
            IF camera /\ started < MaxThreads
            THEN /\ video_stream' = TRUE
                 /\ motion_detector' = "fresh"
                 /\ is_running' = TRUE
                 /\ started' = started + 1
                 /\ pc' = [pc EXCEPT ![started + 1] = "loop"]
            ELSE UNCHANGED <<is_running, started, video_stream, motion_detector, pc>>
  /\ UNCHANGED <<sideVars, db_client, now, rootAlive, last_motion_time,
                 face_detection_active, faceVars,
                 last_recognition_time, frameVars, results, enter_time, att_ret>>
  /\ UNCHANGED <<dbVars, guiVars, histVars>>

\* MainWindow.stop_recognition with VideoPanel.stop_video_processing
StopRecognitionBody ==
  /\ is_running' = FALSE
  /\ video_stream' = FALSE
  /\ motion_detector' = "none"

StopRecognition ==
  /\ rootAlive /\ gpc = "idle"
  /\ StopRecognitionBody
  /\ UNCHANGED <<sideVars, db_client, now, rootAlive, started, last_motion_time,
                 face_detection_active,
                 faceVars, last_recognition_time, pc, frameVars, results,
                 enter_time, att_ret>>
  /\ UNCHANGED <<dbVars, guiVars, histVars>>

\* database_manager.close_database_manager: the global manager closes its
\* client and is dropped
CloseDatabaseManager == db_client' = FALSE

\* Mutant of OnClosing: the window is destroyed without stopping recognition
OnClosing_WithoutStop ==
  /\ rootAlive /\ gpc = "idle"
  /\ UNCHANGED <<is_running, video_stream, motion_detector>>
  /\ rootAlive' = FALSE
  /\ CloseDatabaseManager
  /\ UNCHANGED <<sideVars, now, started, last_motion_time, face_detection_active,
                 faceVars, last_recognition_time, pc, frameVars, results,
                 enter_time, att_ret>>
  /\ UNCHANGED <<dbVars, guiVars, histVars>>

\* The WM_DELETE_WINDOW handler of face_recognition_app.main:
\* MainWindow.on_closing (stop if running, emp_db.close() and face_db.close()
\* do nothing, root.destroy()), then close_database_manager()
OnClosing ==
  /\ rootAlive /\ gpc = "idle"
  /\ IF is_running THEN StopRecognitionBody
     ELSE UNCHANGED <<is_running, video_stream, motion_detector>>
  /\ rootAlive' = FALSE
  /\ CloseDatabaseManager
  /\ UNCHANGED <<sideVars, now, started, last_motion_time, face_detection_active,
                 faceVars, last_recognition_time, pc, frameVars, results,
                 enter_time, att_ret>>
  /\ UNCHANGED <<dbVars, guiVars, histVars>>

\* ------------------------------------- EmployeeDatabase.record_attendance

\* Lines 111-129: enter_time = datetime.now(); the employee exists (employees
\* are never deleted); find_one.  An existing document is returned at once.
\* Mutant of ExistingRecord: the query uses enter_time, not its date
ExistingRecord_ByEnterTime(e) == FindOne(attendance, e, now)

ExistingRecord(e) == FindOne(attendance, e, AttendanceDate(now))

RecordFind(c, e) ==
  LET existing == ExistingRecord(e) IN
  IF existing /= {}
  THEN /\ att_ret' = [att_ret EXCEPT ![c] = (CHOOSE r \in existing : TRUE).id]
       /\ enter_time' = [enter_time EXCEPT ![c] = NoTime]
  ELSE /\ enter_time' = [enter_time EXCEPT ![c] = now]
       /\ UNCHANGED att_ret

\* Whether record_attendance returned from RecordFind
FoundExisting(e) == ExistingRecord(e) /= {}

\* Lines 131-155: lateness, the document, insert_one.  The insert raises
\* DuplicateKeyError when the unique index refuses the document.
InsertRaises(c, e) ==
  ~UniqueIndexAccepts(attendance, AttendanceDoc(attendance, e, enter_time[c]))

RecordInsert(c, e) ==
  LET doc == AttendanceDoc(attendance, e, enter_time[c]) IN
  /\ enter_time' = [enter_time EXCEPT ![c] = NoTime]
  /\ IF InsertRaises(c, e)
     THEN UNCHANGED <<attendance, att_ret>>
     ELSE /\ attendance' = attendance \cup {doc}
          /\ att_ret' = [att_ret EXCEPT ![c] = doc.id]

\* --------------------------- Tk main thread: the manual attendance dialog

\* show_manual_attendance_dialog.record_selected, up to find_one
ManualFind ==
  /\ rootAlive /\ gpc = "idle"
  /\ \E e \in DOMAIN Employees :
       /\ g_emp' = e
       /\ RecordFind(Gui, e)
       /\ gpc' = IF FoundExisting(e) THEN "info_box" ELSE "insert"
  /\ UNCHANGED <<sideVars, db_client, now, rootAlive, is_running, started, faceVars,
                 last_recognition_time, pc, frameVars, results>>
  /\ UNCHANGED <<dbVars, panelVars, histVars>>

\* record_selected: insert_one, then showinfo or (on an exception) showerror
ManualInsert ==
  /\ gpc = "insert"
  /\ RecordInsert(Gui, g_emp)
  /\ gpc' = IF InsertRaises(Gui, g_emp) THEN "error_box" ELSE "info_box"
  /\ UNCHANGED <<sideVars, db_client, now, rootAlive, is_running, started, faceVars,
                 last_recognition_time, pc, frameVars, results, g_emp>>
  /\ UNCHANGED <<panelVars, histVars>>

\* The message box is dismissed; the dialog closes after a success
ManualDismiss ==
  /\ gpc \in {"info_box", "error_box"}
  /\ gpc' = "idle"
  /\ g_emp' = "E1"
  /\ att_ret' = [att_ret EXCEPT ![Gui] = NoId]
  /\ UNCHANGED <<sideVars, db_client, now, rootAlive, is_running, started, faceVars,
                 last_recognition_time, pc, frameVars, results, enter_time>>
  /\ UNCHANGED <<dbVars, panelVars, histVars>>

\* ----------------------------------- a video thread: video_processing_loop

\* root.after(...) called from a video thread: the callback is queued for the
\* Tk main thread
Scheduled(widgets) == {[how |-> "after", widget |-> w] : w \in widgets}

\* A widget configured by the calling thread itself
Direct(widgets) == {[how |-> "direct", widget |-> w] : w \in widgets}

\* VideoPanel.update_video_display: video_label.config(image=photo)
UpdateVideoDisplay == Direct({"video_label"})

\* VideoPanel.update_recognition_status: root.after(0, lambda: ...config(...))
UpdateRecognitionStatus == Scheduled({"recognition_status"})

\* MainWindow.video_processing_loop: while self.is_running
LoopCheck(t) ==
  /\ pc[t] = "loop"
  /\ pc' = [pc EXCEPT ![t] = IF is_running THEN "frame" ELSE "dead"]
  /\ UNCHANGED <<sideVars, db_client, now, rootAlive, is_running, started, faceVars,
                 last_recognition_time, frameVars, results, enter_time, att_ret>>
  /\ UNCHANGED <<dbVars, panelVars, guiVars, histVars>>

\* video_processing_loop, lines 141-145: the call of process_frame with
\* self.known_encodings and self.known_names as they are at the call.
\* VideoPanel.process_frame, lines 128-146: the guard, the read, motion
\* detection and the gating update.  outcome "noframe": read returned
\* ret = False; "error": read or detect raised (caught at line 180); both
\* return [] and the loop sleeps and goes round.  A fresh MotionDetector
\* reports no motion on its first frame.
ReadFrame(t) ==
  /\ pc[t] = "frame"
  /\ IF ~video_stream \/ motion_detector = "none"
     THEN /\ pc' = [pc EXCEPT ![t] = "loop"]
          /\ UNCHANGED <<panelVars, frameVars, motion_seen, gate_after>>
     ELSE \E outcome \in {"frame", "noframe", "error"} :
            IF outcome /= "frame"
            THEN /\ pc' = [pc EXCEPT ![t] = "loop"]
                 /\ UNCHANGED <<panelVars, frameVars, motion_seen, gate_after>>
            ELSE \E motion \in (IF motion_detector = "fresh" THEN {FALSE} ELSE BOOLEAN) :
                   /\ motion_detector' = "primed"
                   /\ last_motion_time' = GateLastMotion(motion, now, last_motion_time)
                   /\ face_detection_active' =
                        GateActive(motion, now, last_motion_time, face_detection_active)
                   /\ motion_detected' = [motion_detected EXCEPT ![t] = motion]
                   /\ arg_encodings' = [arg_encodings EXCEPT ![t] = known_encodings]
                   /\ arg_names' = [arg_names EXCEPT ![t] = known_names]
                   /\ motion_seen' = (motion_seen \/ motion)
                   /\ gate_after' = [gate_after EXCEPT ![t] =
                        GateActive(motion, now, last_motion_time, face_detection_active)]
                   /\ pc' = [pc EXCEPT ![t] = "recog"]
                   /\ UNCHANGED video_stream
  /\ UNCHANGED <<sideVars, db_client, now, rootAlive, is_running, started, faceVars,
                 last_recognition_time, results, enter_time, att_ret>>
  /\ UNCHANGED <<dbVars, guiVars, ui_ops, recognition_invoked, last_write, recognized>>

\* Mutant of RecognitionRuns: recognition is not gated by motion
RecognitionRuns_Ungated(t) == arg_encodings[t] /= <<>>

\* VideoPanel.process_frame, line 151: whether this frame is given to
\* recognize_faces (if self.face_detection_active and known_encodings)
RecognitionRuns(t) == face_detection_active /\ arg_encodings[t] /= <<>>

\* _process_recognition: known_names[best_match_index] raises IndexError when
\* the nearest encoding matches and known_names is shorter than its index
NameIndexError(faces, names, tolerance) ==
  \E i \in DOMAIN faces :
    /\ Len(faces[i]) > 0
    /\ faces[i][ArgMin(faces[i])] <= tolerance
    /\ ArgMin(faces[i]) > Len(names)

\* VideoPanel.process_frame, lines 148-182: recognition if active, the status
\* text, the overlay and the display.  An exception in recognize_faces, or in
\* root.after once the root is destroyed, is caught at line 180: return [].
Recognize(t) ==
  /\ pc[t] = "recog"
  /\ recognition_invoked' = (recognition_invoked \/ RecognitionRuns(t))
  /\ recognized' = [recognized EXCEPT ![t] = RecognitionRuns(t)]
  /\ gate_after' = [gate_after EXCEPT ![t] = FALSE]
  /\ \E raised \in (IF RecognitionRuns(t) THEN BOOLEAN ELSE {FALSE}) :
     \E faces \in (IF RecognitionRuns(t) THEN FrameFaces(arg_encodings[t]) ELSE {<<>>}) :
       IF raised \/ ~rootAlive \/ NameIndexError(faces, arg_names[t], RecognitionTolerance)
       THEN /\ results' = [results EXCEPT ![t] = <<>>]
            /\ UNCHANGED ui_ops
       ELSE /\ results' = [results EXCEPT ![t] =
                 ProcessRecognition(faces, arg_names[t], RecognitionTolerance)]
            /\ ui_ops' = ui_ops \cup UpdateRecognitionStatus \cup UpdateVideoDisplay
  /\ motion_detected' = [motion_detected EXCEPT ![t] = FALSE]
  /\ arg_encodings' = [arg_encodings EXCEPT ![t] = <<>>]
  /\ arg_names' = [arg_names EXCEPT ![t] = <<>>]
  /\ pc' = [pc EXCEPT ![t] = "results"]
  /\ UNCHANGED <<sideVars, db_client, now, rootAlive, is_running, started, faceVars,
                 last_recognition_time, enter_time, att_ret>>
  /\ UNCHANGED <<dbVars, panelVars, guiVars, motion_seen, last_write>>

\* video_processing_loop, lines 148-154: the next result; the name and
\* confidence filter and should_record_attendance; with no result left,
\* sleep and go round.
NextResult(t) ==
  /\ pc[t] = "results"
  /\ IF results[t] = <<>>
     THEN /\ pc' = [pc EXCEPT ![t] = "loop"]
          /\ recognized' = [recognized EXCEPT ![t] = FALSE]
          /\ UNCHANGED results
     ELSE IF /\ AcceptedResult(Head(results[t]))
             /\ ShouldRecordAttendance(Head(results[t]).name, now, last_recognition_time)
          THEN /\ pc' = [pc EXCEPT ![t] = "process"]
               /\ UNCHANGED <<results, recognized>>
          ELSE /\ results' = [results EXCEPT ![t] = Tail(results[t])]
               /\ UNCHANGED <<pc, recognized>>
  /\ UNCHANGED <<sideVars, db_client, now, rootAlive, is_running, started, faceVars,
                 last_recognition_time, frameVars, enter_time, att_ret>>
  /\ UNCHANGED <<dbVars, panelVars, guiVars, ui_ops, motion_seen, recognition_invoked,
                 last_write, gate_after>>

\* MainWindow.process_recognition, lines 169-174, into record_attendance up to
\* find_one.  A name without an employee is dropped without a write.
ProcessRecognitionFind(t) ==
  /\ pc[t] = "process"
  /\ LET name == Head(results[t]).name IN
     IF name \in MappedNames
     THEN /\ RecordFind(t, EmployeeMap[name])
          /\ pc' = [pc EXCEPT ![t] =
               IF FoundExisting(EmployeeMap[name]) THEN "rec_done" ELSE "rec_insert"]
          /\ last_write' = IF FoundExisting(EmployeeMap[name])
                           THEN [last_write EXCEPT ![name] = now] ELSE last_write
          /\ UNCHANGED results
     ELSE /\ results' = [results EXCEPT ![t] = Tail(results[t])]
          /\ pc' = [pc EXCEPT ![t] = "results"]
          /\ UNCHANGED <<enter_time, att_ret, last_write>>
  /\ UNCHANGED <<sideVars, db_client, now, rootAlive, is_running, started, faceVars,
                 last_recognition_time, frameVars>>
  /\ UNCHANGED <<dbVars, panelVars, guiVars, ui_ops, motion_seen, recognition_invoked,
                 gate_after, recognized>>

\* record_attendance called by process_recognition: insert_one
ProcessRecognitionInsert(t) ==
  /\ pc[t] = "rec_insert"
  /\ LET name == Head(results[t]).name IN
     /\ RecordInsert(t, EmployeeMap[name])
     /\ pc' = [pc EXCEPT ![t] =
          IF InsertRaises(t, EmployeeMap[name]) THEN "rec_except" ELSE "rec_done"]
     /\ last_write' = IF InsertRaises(t, EmployeeMap[name])
                      THEN last_write ELSE [last_write EXCEPT ![name] = enter_time[t]]
  /\ UNCHANGED <<sideVars, db_client, now, rootAlive, is_running, started, faceVars,
                 last_recognition_time, frameVars, results>>
  /\ UNCHANGED <<panelVars, guiVars, ui_ops, motion_seen, recognition_invoked,
                 gate_after, recognized>>

\* process_recognition, lines 176-186: record_attendance has returned;
\* last_recognition_time, then root.after(0, refresh_attendance) and the green
\* status.  root.after raises once the root is destroyed: to the handler.
ProcessRecognitionDone(t) ==
  /\ pc[t] = "rec_done"
  /\ last_recognition_time' =
       [last_recognition_time EXCEPT ![Head(results[t]).name] = now]
  /\ att_ret' = [att_ret EXCEPT ![t] = NoId]
  /\ IF rootAlive
     THEN /\ ui_ops' = ui_ops \cup Scheduled({"attendance_list", "recognition_status"})
          /\ results' = [results EXCEPT ![t] = Tail(results[t])]
          /\ pc' = [pc EXCEPT ![t] = "results"]
     ELSE /\ pc' = [pc EXCEPT ![t] = "rec_except"]
          /\ UNCHANGED <<ui_ops, results>>
  /\ UNCHANGED <<sideVars, db_client, now, rootAlive, is_running, started, faceVars,
                 frameVars, enter_time>>
  /\ UNCHANGED <<dbVars, panelVars, guiVars, motion_seen, recognition_invoked, last_write,
                 gate_after, recognized>>

\* Mutant of ProcessRecognitionExcept: the handler also stamps
\* last_recognition_time
ProcessRecognitionExcept_Stamps(t) ==
  /\ pc[t] = "rec_except"
  /\ last_recognition_time' =
       [last_recognition_time EXCEPT ![Head(results[t]).name] = now]
  /\ IF rootAlive
     THEN /\ ui_ops' = ui_ops \cup Scheduled({"recognition_status"})
          /\ results' = [results EXCEPT ![t] = Tail(results[t])]
          /\ pc' = [pc EXCEPT ![t] = "results"]
     ELSE /\ results' = [results EXCEPT ![t] = <<>>]
          /\ pc' = [pc EXCEPT ![t] = "dead"]
          /\ UNCHANGED ui_ops
  /\ UNCHANGED <<sideVars, db_client, now, rootAlive, is_running, started, faceVars,
                 frameVars, enter_time, att_ret>>
  /\ UNCHANGED <<dbVars, panelVars, guiVars, motion_seen, recognition_invoked, last_write,
                 gate_after, recognized>>

\* Mutant of ProcessRecognitionExcept: process_recognition has no handler of
\* its own, the exception reaches the loop's handler: break
ProcessRecognitionExcept_Propagates(t) ==
  /\ pc[t] = "rec_except"
  /\ results' = [results EXCEPT ![t] = <<>>]
  /\ pc' = [pc EXCEPT ![t] = "dead"]
  /\ UNCHANGED <<sideVars, db_client, now, rootAlive, is_running, started, faceVars,
                 last_recognition_time, frameVars, enter_time, att_ret>>
  /\ UNCHANGED <<dbVars, panelVars, guiVars, histVars>>

\* process_recognition, lines 188-190: the handler logs and shows the red
\* status.  If that root.after raises (root destroyed) the exception leaves
\* process_recognition and reaches the loop's own handler, lines 156-158: break.
ProcessRecognitionExcept(t) ==
  /\ pc[t] = "rec_except"
  /\ IF rootAlive
     THEN /\ ui_ops' = ui_ops \cup Scheduled({"recognition_status"})
          /\ results' = [results EXCEPT ![t] = Tail(results[t])]
          /\ pc' = [pc EXCEPT ![t] = "results"]
     ELSE /\ results' = [results EXCEPT ![t] = <<>>]
          /\ pc' = [pc EXCEPT ![t] = "dead"]
          /\ UNCHANGED ui_ops
  /\ UNCHANGED <<sideVars, db_client, now, rootAlive, is_running, started, faceVars,
                 last_recognition_time, frameVars, enter_time, att_ret>>
  /\ UNCHANGED <<dbVars, panelVars, guiVars, motion_seen, recognition_invoked, last_write,
                 gate_after, recognized>>

\* ----------------------------- Tk main thread: reload after enrollment

\* MainWindow.load_known_faces (from reload_faces_callback), lines 81-82:
\* all_faces = get_all_faces(); self.known_names = [...]
ReloadNames ==
  /\ rootAlive /\ gpc = "idle"
  /\ \E all_faces \in FaceLists : known_names' = all_faces
  /\ gpc' = "reload"
  /\ UNCHANGED <<sideVars, db_client, now, rootAlive, is_running, started, known_encodings,
                 last_recognition_time, pc, frameVars, results, enter_time, att_ret, g_emp>>
  /\ UNCHANGED <<dbVars, panelVars, histVars>>

\* load_known_faces, lines 83-90: self.known_encodings = [...] from the same
\* all_faces, then the employee map
ReloadEncodings ==
  /\ gpc = "reload"
  /\ known_encodings' = known_names
  /\ gpc' = "idle"
  /\ UNCHANGED <<sideVars, db_client, now, rootAlive, is_running, started, known_names,
                 last_recognition_time, pc, frameVars, results, enter_time, att_ret, g_emp>>
  /\ UNCHANGED <<dbVars, panelVars, histVars>>

\* ------------------------------------ Tk main thread: the employee dialog

\* EmployeeDialog.add_employee with EmployeeDatabase.add_employee: an empty
\* name is refused by the dialog; insert_one raises DuplicateKeyError when the
\* phone index refuses the document, which add_employee turns into ValueError
\* and the dialog into an error box.
AddEmployee ==
  /\ \E name \in EmployeeNames \cup {""} : \E phone \in Phones \cup {NoPhone} :
       LET doc == EmployeeDoc(employees_collection, name, phone) IN
       IF name = ""
       THEN /\ add_call' = [name |-> name, phone |-> phone, outcome |-> "name_required"]
            /\ UNCHANGED employees_collection
       ELSE IF PhoneIndexAccepts(employees_collection, doc)
       THEN /\ employees_collection' = employees_collection \cup {doc}
            /\ add_call' = [name |-> name, phone |-> phone, outcome |-> "added"]
       ELSE /\ add_call' = [name |-> name, phone |-> phone, outcome |-> "ValueError"]
            /\ UNCHANGED employees_collection
  /\ UNCHANGED <<faces_collection, link_call>>
  /\ UNCHANGED exceptEmployees

\* enroll_person's saving loop, run by run_face_enrollment_thread for a listed
\* employee: every captured sample is stored under the employee's name
SaveEnrolledFaces ==
  /\ \E e \in employees_collection : \E k \in 1..MaxSamples :
       /\ Len(faces_collection) + k <= MaxSamples
       /\ faces_collection' = faces_collection \o [i \in 1..k |-> FaceDoc(e.name)]
  /\ UNCHANGED <<employees_collection, add_call, link_call>>
  /\ UNCHANGED exceptEmployees

\* EmployeeDatabase.link_face_to_employee, as the enrollment thread and the
\* link dialog call it
LinkFaceToEmployee ==
  /\ \E employee_id \in EmployeeIds : \E face_name \in EmployeeNames :
       LET modified == ModifiedCount(faces_collection, employee_id, face_name) IN
       IF GetEmployee(employees_collection, employee_id) = {}
       THEN /\ link_call' = [employee_id |-> employee_id, face_name |-> face_name,
                             outcome |-> "ValueError", modified |-> 0]
            /\ UNCHANGED <<employees_collection, faces_collection>>
       ELSE /\ faces_collection' = LinkedFaces(faces_collection, employee_id, face_name)
            /\ employees_collection' =
                 IF modified > 0
                 THEN MarkEnrolled(employees_collection, employee_id)
                 ELSE employees_collection
            /\ link_call' = [employee_id |-> employee_id, face_name |-> face_name,
                             outcome |-> "linked", modified |-> modified]
  /\ UNCHANGED add_call
  /\ UNCHANGED exceptEmployees

\* ------------------------------------------------------- enroll_person

\* enroll_person up to the loop: VideoStream(0).start() either holds the
\* camera or raises ValueError holding nothing (the camera test fails, the
\* capture does not open, or the initial read fails and start releases the
\* capture itself); then the counters are set.
EnrollStart ==
  /\ enroll_pc = "idle"
  /\ \E outcome \in {"ok", "test_failed", "not_opened", "no_frame"} :
       /\ enroll_cap' = (outcome = "ok")
       /\ enroll_pc' = IF outcome = "ok" THEN "loop" ELSE "raised"
  /\ sample_count' = 0
  /\ last_sample_time' = 0
  /\ UNCHANGED <<enroll_time, enroll_frame>>
  /\ UNCHANGED exceptEnrollment

\* One iteration of `while sample_count < num_samples`, with the loop test
\* that follows it and, when the loop is left, the finally block
\* (stream.stop()).  raised: detection or the preview window raises.  The
\* samples captured are stored afterwards (SaveEnrolledFaces).
EnrollFrame ==
  /\ enroll_pc = "loop"
  /\ sample_count < NumSamples
  /\ \E gap \in FrameGaps, ret \in BOOLEAN, faces \in 0..2, quit \in BOOLEAN,
        raised \in BOOLEAN :
       LET current_time == enroll_time + gap
           capture == /\ ret /\ ~raised
                      /\ CaptureSample(faces, current_time, last_sample_time, SampleDelay)
           count == IF capture THEN sample_count + 1 ELSE sample_count
       IN /\ current_time <= EnrollEpoch + MaxEnrollSeconds
          /\ enroll_time' = current_time
          /\ sample_count' = count
          /\ last_sample_time' = IF capture THEN current_time ELSE last_sample_time
          /\ enroll_frame' = [ret |-> ret, faces |-> IF ret THEN faces ELSE 0,
                              quit |-> ret /\ ~raised /\ quit,
                              time |-> current_time, captured |-> capture]
          /\ enroll_pc' = IF ret /\ raised THEN "raised"
                          ELSE IF ~ret \/ quit \/ count = NumSamples THEN "captured"
                          ELSE "loop"
          /\ enroll_cap' = (enroll_pc' = "loop")
  /\ UNCHANGED exceptEnrollment

\* ------------------------------------------------- IntegratedSystem

\* run(duration) is entered: without a processor it returns at once,
\* otherwise it prints the instructions and sleeps 3 seconds
SystemRun ==
  /\ sys_pc = "idle"
  /\ \E initialized \in BOOLEAN : \E duration \in RunDurations :
       /\ sys_pc' = IF initialized THEN "delay" ELSE "returned"
       /\ sys_duration' = duration
  /\ UNCHANGED <<sys_running, sys_elapsed, frames_processed, sys_stop>>
  /\ UNCHANGED exceptSystem

\* The sleep is over: running = True, start_time = time.time()
SystemWake ==
  /\ sys_pc = "delay"
  /\ sys_running' = TRUE
  /\ sys_elapsed' = 0
  /\ sys_pc' = "loop"
  /\ UNCHANGED <<sys_duration, frames_processed, sys_stop>>
  /\ UNCHANGED exceptSystem

\* The loop test and one iteration: duration limit, frame read, process_frame,
\* key.  Leaving the loop runs the finally block (running = False) and run
\* returns.  interrupted: KeyboardInterrupt.
SystemFrame ==
  /\ sys_pc = "loop"
  /\ \E gap \in 0..1, ret \in BOOLEAN, key \in {"none", "q", "s"}, interrupted \in BOOLEAN :
       LET elapsed == IF sys_elapsed + gap > MaxSystemSeconds
                      THEN MaxSystemSeconds ELSE sys_elapsed + gap
           processed == sys_running /\ ~DurationReached(sys_duration, elapsed) /\ ret
                          /\ ~interrupted
           leaves == ~processed \/ key = "q"
       IN /\ sys_elapsed' = elapsed
          /\ frames_processed' = IF processed
                                 THEN (frames_processed + 1) % FrameWindow
                                 ELSE frames_processed
          /\ sys_pc' = IF leaves THEN "returned" ELSE "loop"
          /\ sys_running' = IF leaves THEN FALSE ELSE sys_running
  /\ UNCHANGED <<sys_duration, sys_stop>>
  /\ UNCHANGED exceptSystem

\* stop(), called from another thread at any time
SystemStop ==
  /\ sys_running' = FALSE
  /\ sys_stop' = (sys_stop \/ sys_pc \in {"delay", "loop"})
  /\ UNCHANGED <<sys_pc, sys_duration, sys_elapsed, frames_processed>>
  /\ UNCHANGED exceptSystem

\* ------------------------------------------------- VideoProcessor

\* start(): nothing while running; otherwise running = True and a new thread
\* runs _processing_loop
ProcessorStart ==
  /\ vp_started < MaxStarts
  /\ IF vp_running
     THEN UNCHANGED <<vp_running, vp_started, vp_alive>>
     ELSE /\ vp_running' = TRUE
          /\ vp_started' = vp_started + 1
          /\ vp_alive' = vp_alive + 1
  /\ vp_last' = "start"
  /\ UNCHANGED <<vp_frames, vp_wait>>
  /\ UNCHANGED exceptProcessor

\* stop(): running = False, then join(timeout=1.0), which waits at most one
\* second and changes nothing
ProcessorStop ==
  /\ vp_running' = FALSE
  /\ vp_last' = "stop"
  /\ UNCHANGED <<vp_started, vp_alive, vp_frames, vp_wait>>
  /\ UNCHANGED exceptProcessor

\* A processing thread: the loop test and one iteration.  The loop is left
\* when running is false, the read fails or "q" is pressed; then only
\* cv2.destroyAllWindows() runs.
ProcessingLoop ==
  /\ vp_alive > 0
  /\ \E ret \in BOOLEAN, quit \in BOOLEAN :
       IF ~vp_running
       THEN /\ vp_alive' = vp_alive - 1
            /\ vp_last' = "stopped"
            /\ UNCHANGED vp_frames
       ELSE IF ~ret
       THEN /\ vp_alive' = vp_alive - 1
            /\ vp_last' = "read_failed"
            /\ UNCHANGED vp_frames
       ELSE /\ vp_frames' = (vp_frames + 1) % FrameWindow
            /\ vp_alive' = IF quit THEN vp_alive - 1 ELSE vp_alive
            /\ vp_last' = IF quit THEN "quit" ELSE "frame"
  /\ UNCHANGED <<vp_running, vp_started, vp_wait>>
  /\ UNCHANGED exceptProcessor

\* __main__: after processor.start(), poll running every 0.1 s and leave the
\* wait when it is false
ProcessorWait ==
  /\ vp_started > 0
  /\ vp_wait \in {"none", "waiting"}
  /\ vp_wait' = IF vp_running THEN "waiting" ELSE "released"
  /\ UNCHANGED <<vp_running, vp_started, vp_alive, vp_frames, vp_last>>
  /\ UNCHANGED exceptProcessor

\* ------------------------------------------------- the database manager

\* get_database_manager, line 124: the caller reads the global; a manager
\* that exists is returned at once
GetManagerCheck(g) ==
  /\ dm_pc[g] = "idle"
  /\ IF db_manager /= NoManager
     THEN /\ dm_returned' = dm_returned \cup {db_manager}
          /\ dm_last' = "returned"
          /\ UNCHANGED dm_pc
     ELSE /\ dm_pc' = [dm_pc EXCEPT ![g] = "create"]
          /\ UNCHANGED <<dm_returned, dm_last>>
  /\ UNCHANGED <<db_manager, dm_created, dm_open>>
  /\ UNCHANGED exceptManager

\* get_database_manager, lines 125-130, for a caller that read None: the
\* configuration is loaded, DatabaseManager(...) connects (or raises, and the
\* global stays as it is), the global is assigned and returned
GetManagerCreate(g) ==
  /\ dm_pc[g] = "create"
  /\ dm_pc' = [dm_pc EXCEPT ![g] = "idle"]
  /\ \E connected \in BOOLEAN :
       IF connected /\ dm_created < MaxManagers
       THEN /\ dm_created' = dm_created + 1
            /\ dm_open' = dm_open \cup {dm_created + 1}
            /\ db_manager' = dm_created + 1
            /\ dm_returned' = dm_returned \cup {dm_created + 1}
            /\ dm_last' = "created"
       ELSE /\ dm_last' = "raised"
            /\ UNCHANGED <<db_manager, dm_created, dm_open, dm_returned>>
  /\ UNCHANGED exceptManager

\* close_database_manager with DatabaseManager.close, on the Tk thread
CloseManager ==
  /\ IF db_manager /= NoManager
     THEN /\ dm_open' = dm_open \ {db_manager}
          /\ db_manager' = NoManager
          /\ dm_last' = "closed"
     ELSE /\ dm_last' = "close_none"
          /\ UNCHANGED <<db_manager, dm_open>>
  /\ dm_returned' = {}
  /\ UNCHANGED <<dm_created, dm_pc>>
  /\ UNCHANGED exceptManager

\* ------------------------------------------------- MotionDetector

\* detect(frame): the first frame is stored and reported without motion;
\* every later frame is compared with prev_frame, which it then replaces
Detect ==
  /\ \E gray \in GrayFrames :
       /\ md_frame' = gray
       /\ md_before' = md_prev
       /\ md_prev' = gray
       /\ IF md_prev = NoGray
          THEN /\ md_ret' = FALSE
               /\ UNCHANGED md_flag
          ELSE /\ md_flag' = MotionIn(md_prev, gray)
               /\ md_ret' = md_flag'
  /\ UNCHANGED exceptMotion

\* ------------------------------------------------- the analytics engine

\* SparkAnalyticsEngine.__init__: use_spark = False, then the environment and
\* _init_spark_with_hadoop.  outcome: pyspark cannot be imported or the
\* session cannot be created ("no_session"), the session exists but the test
\* job fails ("test_failed"), or the test job counts 3 ("ok").  Every
\* exception is caught by __init__.
ConstructEngine ==
  /\ engine = "none"
  /\ \E outcome \in {"no_session", "test_failed", "ok"} :
       /\ spark' = (outcome /= "no_session")
       /\ use_spark' = (outcome = "ok")
  /\ engine' = "built"
  /\ UNCHANGED <<events_df, peak_hours, peak_path>>
  /\ UNCHANGED exceptAnalytics

\* load_data_from_mongodb, called once on a new engine (InfoTabs.run_analytics
\* builds an engine per run): events_df is set
LoadData ==
  /\ engine = "built"
  /\ \E df \in EventTables : events_df' = df
  /\ engine' = "loaded"
  /\ peak_hours' = <<>>
  /\ peak_path' = "none"
  /\ UNCHANGED <<use_spark, spark>>
  /\ UNCHANGED exceptAnalytics

\* analyze_peak_hours.  An empty table returns an empty frame.  With
\* use_spark and a session the Spark aggregation runs; if it raises, the
\* handler clears use_spark and the pandas aggregation runs in the same call.
AnalyzePeakHours ==
  /\ engine = "loaded"
  /\ IF events_df = <<>>
     THEN /\ peak_hours' = <<>>
          /\ peak_path' = "empty"
          /\ UNCHANGED use_spark
     ELSE IF use_spark /\ spark
     THEN \E spark_error \in BOOLEAN :
            IF spark_error
            THEN /\ use_spark' = UseSparkAfterFailure
                 /\ peak_hours' = PandasPeakHours(events_df)
                 /\ peak_path' = "fallback"
            ELSE /\ peak_hours' = SparkPeakHours(events_df)
                 /\ peak_path' = "spark"
                 /\ UNCHANGED use_spark
     ELSE /\ peak_hours' = PandasPeakHours(events_df)
          /\ peak_path' = "pandas"
          /\ UNCHANGED use_spark
  /\ UNCHANGED <<engine, spark, events_df>>
  /\ UNCHANGED exceptAnalytics

VideoThread(t) ==
  \/ LoopCheck(t)
  \/ ReadFrame(t)
  \/ Recognize(t)
  \/ NextResult(t)
  \/ ProcessRecognitionFind(t)
  \/ ProcessRecognitionInsert(t)
  \/ ProcessRecognitionDone(t)
  \/ ProcessRecognitionExcept(t)

TickSeconds == Tick(Instants)

TickDays == Tick(DayInstants)

Next ==
  \/ TickSeconds
  \/ StartRecognition
  \/ StopRecognition
  \/ OnClosing
  \/ ManualFind
  \/ ManualInsert
  \/ ManualDismiss
  \/ \E t \in Threads : VideoThread(t)

\* The loop within one morning, at the scale of seconds
Spec == Init /\ [][Next]_vars

NextDays ==
  \/ TickDays
  \/ StartRecognition
  \/ StopRecognition
  \/ OnClosing
  \/ ManualFind
  \/ ManualInsert
  \/ ManualDismiss
  \/ \E t \in Threads : VideoThread(t)

\* The last session over several days, at the scale of days
SpecDays == InitDays /\ [][NextDays]_vars

NextReload ==
  \/ StartRecognition
  \/ StopRecognition
  \/ OnClosing
  \/ ReloadNames
  \/ ReloadEncodings
  \/ \E t \in Threads : VideoThread(t)

\* The last session with faces reloaded while it runs; the clock stands
SpecReload == InitDays /\ [][NextReload]_vars

\* ------------------------------------------- one call of recognize_faces

\* The faces of a frame, each as its distances (in tenths, 0.0 to 1.0) to the
\* known encodings
FaceDistances == 0..10
RecognizedFrames(encodings) ==
  UNION {[1..k -> [1..Len(encodings) -> FaceDistances]] : k \in 0..MaxFaces}

\* A frame and the known faces handed to recognize_faces
InitRecognize ==
  /\ InitProgram(0)
  /\ NoOverlapCall
  /\ rec_pc = "input"
  /\ rec_names \in FaceLists
  /\ rec_faces \in RecognizedFrames(rec_names)
  /\ rec_results = <<>>

\* recognize_faces(frame, known_encodings, known_names, threshold=0.6), as
\* VideoPanel.process_frame calls it
RecognizeFacesCall ==
  /\ rec_pc = "input"
  /\ rec_results' = RecognizeFaces(rec_faces, rec_names, rec_names, RecognitionTolerance)
  /\ rec_pc' = "done"
  /\ UNCHANGED <<rec_faces, rec_names>>
  /\ UNCHANGED exceptRecognize

NextRecognize == RecognizeFacesCall

SpecRecognize == InitRecognize /\ [][NextRecognize]_vars

\* ----------------------------------- one call of remove_overlapping_faces

\* The detections of one frame
InitOverlap ==
  /\ InitProgram(0)
  /\ NoRecognizeCall
  /\ ov_pc = "input"
  /\ ov_faces \in UNION {[1..k -> DetectedFaces] : k \in 0..MaxBoxes}
  /\ ov_filtered = <<>>
  /\ ov_again = <<>>

\* remove_overlapping_faces(faces)
RemoveOverlappingCall ==
  /\ ov_pc = "input"
  /\ ov_filtered' = RemoveOverlappingFaces(ov_faces)
  /\ ov_pc' = "once"
  /\ UNCHANGED <<ov_faces, ov_again>>
  /\ UNCHANGED exceptOverlap

\* remove_overlapping_faces applied to its own result
RemoveOverlappingAgain ==
  /\ ov_pc = "once"
  /\ ov_again' = RemoveOverlappingFaces(ov_filtered)
  /\ ov_pc' = "twice"
  /\ UNCHANGED <<ov_faces, ov_filtered>>
  /\ UNCHANGED exceptOverlap

NextOverlap ==
  \/ RemoveOverlappingCall
  \/ RemoveOverlappingAgain

SpecOverlap == InitOverlap /\ [][NextOverlap]_vars

\* A motion detector and the frames it is given
NextMotion == Detect

SpecMotion == Init /\ [][NextMotion]_vars

\* The employee dialog alone
NextEmployees == AddEmployee

SpecEmployees == Init /\ [][NextEmployees]_vars

\* Employees, enrolled face samples and links
NextFaces ==
  \/ AddEmployee
  \/ SaveEnrolledFaces
  \/ LinkFaceToEmployee

\* An empty database: no employee, no face sample, no known face loaded
InitFaces == Init /\ known_names = <<>>

SpecFaces == InitFaces /\ [][NextFaces]_vars

\* One enrollment
NextEnrollment ==
  \/ EnrollStart
  \/ EnrollFrame

SpecEnrollment == Init /\ [][NextEnrollment]_vars

\* One run of the integrated system and the calls of stop(); the sleep ends
\* and the loop keeps iterating, stop() is called or not
NextSystem ==
  \/ SystemRun
  \/ SystemWake
  \/ SystemFrame
  \/ SystemStop

SpecSystem ==
  Init /\ [][NextSystem]_vars /\ WF_vars(SystemWake) /\ WF_vars(SystemFrame)

\* A video processor, its threads and a waiting caller; threads and the
\* waiting caller keep running, start() and stop() are called or not
NextProcessor ==
  \/ ProcessorStart
  \/ ProcessorStop
  \/ ProcessingLoop
  \/ ProcessorWait

SpecProcessor ==
  Init /\ [][NextProcessor]_vars /\ WF_vars(ProcessingLoop) /\ WF_vars(ProcessorWait)

\* The callers of get_database_manager and close_database_manager
NextManager ==
  \/ \E g \in Getters : GetManagerCheck(g)
  \/ \E g \in Getters : GetManagerCreate(g)
  \/ CloseManager

SpecManager == Init /\ [][NextManager]_vars

\* One analytics engine: built, loaded, asked for the peak hours
NextAnalytics ==
  \/ ConstructEngine
  \/ LoadData
  \/ AnalyzePeakHours

SpecAnalytics == Init /\ [][NextAnalytics]_vars

\* ================================================================ claims

\* A video thread's record_attendance call for name n returns normally in
\* this step
WriteReturns(t, n) ==
  /\ pc[t] \in {"process", "rec_insert"}
  /\ pc'[t] = "rec_done"
  /\ Head(results[t]).name = n

\* The enter_time of the call that returns in this step
ReturningEnterTime(t) == IF pc[t] = "process" THEN now ELSE enter_time[t]

\* C1: for a person recognised twice or more within the 30-second debounce
\* window exactly one attendance write occurs: a record_attendance call made
\* by the video loop for a name returns normally only if more than
\* DebounceWindow seconds have passed since the previous such call for that
\* name.
C1_OneWritePerDebounceWindow ==
  [][\A t \in Threads : \A n \in MappedNames :
       (WriteReturns(t, n) /\ last_write[n] /= NoTime)
         => ReturningEnterTime(t) - last_write[n] > DebounceWindow]_vars

\* C8: at most one thread is executing video_processing_loop at any time.
C8_SingleVideoThread == Cardinality({t \in Threads : Alive(t)}) <= 1

\* C10: every UI update caused by a video thread is scheduled with root.after
\* and never performed directly on a widget from that thread.
C10_UiOnlyThroughAfter == \A op \in ui_ops : op.how = "after"

\* C2: under any interleaving of automatic writes (video thread) and manual
\* writes (Tk thread) the attendance collection holds at most one record per
\* (employee_id, date).
C2_OneRecordPerEmployeeAndDate ==
  \A r1 \in attendance : \A r2 \in attendance :
    (r1.employee_id = r2.employee_id /\ r1.date = r2.date) => r1 = r2

\* C2 witness: the manual write raced an automatic one for the same pair and
\* its insert was refused by the storage layer.
C2_ManualInsertRefused ==
  /\ gpc = "error_box"
  /\ \E r \in attendance : r.employee_id = g_emp /\ r.date <= now
                           /\ now < r.date + SecondsPerDay
  /\ last_write["alice"] /= NoTime

\* The records the employee has for the calendar day of now
RecordsToday(e) ==
  {r \in attendance : r.employee_id = e /\ r.date <= now /\ now < r.date + SecondsPerDay}

\* C3: a record_attendance call for an employee who already has a record for
\* that calendar day inserts nothing, leaves the existing record unchanged and
\* returns its id instead of raising (both callers: process_recognition and
\* the manual dialog).
C3_SecondWriteSameDayReturnsExisting ==
  [][/\ \A t \in Threads :
          ( /\ pc[t] = "process" /\ pc'[t] /= "process"
            /\ Head(results[t]).name \in MappedNames
            /\ RecordsToday(EmployeeMap[Head(results[t]).name]) /= {} )
          => /\ attendance' = attendance
             /\ pc'[t] = "rec_done"
             /\ \E r \in RecordsToday(EmployeeMap[Head(results[t]).name]) :
                  att_ret'[t] = r.id
     /\ ( gpc = "idle" /\ gpc' /= "idle" /\ RecordsToday(g_emp') /= {} )
          => /\ attendance' = attendance
             /\ gpc' = "info_box"
             /\ \E r \in RecordsToday(g_emp') : att_ret'[Gui] = r.id
    ]_vars

\* C3 witness: start 09:00, first write at 08:59:30, recognised again at
\* 09:00:01 the same day: the call returned the one record, is_late false.
C3_RecognisedAgainSameDay ==
  \E t \in Threads : \E r \in attendance :
    /\ pc[t] = "rec_done" /\ att_ret[t] = r.id
    /\ attendance = {r}
    /\ r.enter_time = FirstInstant /\ ~r.is_late
    /\ now = FirstInstant + DebounceWindow + 1

\* C4: every record is dated at midnight of its enter time and is_late is
\* true exactly when the enter time of day is after the employee's
\* work_start_time; after each automatic write that returned, the employee has
\* a record for the day of that write (so two days give two records).
C4_RecordPerDayWithLateness ==
  /\ \A r \in attendance :
       /\ r.date % SecondsPerDay = 0
       /\ r.date <= r.enter_time /\ r.enter_time < r.date + SecondsPerDay
       /\ r.is_late <=>
            (r.enter_time - r.date >
               Employees[r.employee_id][1] * 3600 + Employees[r.employee_id][2] * 60)
  /\ \A n \in MappedNames :
       last_write[n] /= NoTime =>
         \E r \in attendance :
           /\ r.employee_id = EmployeeMap[n]
           /\ r.date <= last_write[n] /\ last_write[n] < r.date + SecondsPerDay

\* C4 witness: recognised on two days, on time on one and late on the other
C4_TwoDaysTwoRecords ==
  \E r1 \in attendance : \E r2 \in attendance :
    /\ r1.employee_id = r2.employee_id /\ r1.date < r2.date
    /\ ~r1.is_late /\ r2.is_late
    /\ last_write["alice"] = r2.enter_time

\* A record_attendance call of video thread t is being made or has been made
\* for the result at the head of its list
InWrite(p) == p \in {"process", "rec_insert", "rec_done", "rec_except"}

\* C5: a recognition whose confidence is not above 0.6, or whose label is
\* Unknown, never produces an attendance write: a video thread calls
\* record_attendance only for a named result with confidence above the
\* threshold, and the collection changes only in the manual dialog or in
\* such a call.
C5_NoWriteBelowThreshold ==
  [][/\ \A t \in Threads :
          InWrite(pc'[t]) =>
            /\ Head(results'[t]).name /= Unknown
            /\ Head(results'[t]).confidence > ConfidenceThreshold
     /\ attendance' /= attendance =>
          \/ gpc = "insert" /\ gpc' /= "insert"
          \/ \E t \in Threads :
               /\ pc[t] = "rec_insert" /\ pc'[t] = "rec_done"
               /\ Head(results[t]).name /= Unknown
               /\ Head(results[t]).confidence > ConfidenceThreshold
    ]_vars

\* C5 witness: the loop holds a result that names an employee's face with
\* confidence exactly 0.6 and nothing has been written.
C5_ResultAtThreshold ==
  \E t \in Threads :
    /\ pc[t] = "results" /\ results[t] /= <<>>
    /\ Head(results[t]).name \in MappedNames
    /\ Head(results[t]).confidence = ConfidenceThreshold
    /\ attendance = {}

\* C6: as long as motion detection has never reported motion,
\* face_detection_active is false and recognize_faces has not been called.
C6_NoMotionNoRecognition ==
  ~motion_seen => (~face_detection_active /\ ~recognition_invoked)

\* C6 witness: a frame without motion went through process_frame with faces
\* enrolled, and no motion has been seen so far.
C6_FrameWithoutMotionProcessed ==
  /\ ~motion_seen /\ known_names /= <<>> /\ motion_detector = "primed"
  /\ \E t \in Threads : pc[t] = "results"

C9_ExceptionsDoNotEndTheLoop ==
  [][\A t \in Threads :
       /\ (Alive(t) /\ pc'[t] = "dead") => ~is_running
       /\ (pc[t] = "rec_except" /\ pc'[t] /= "rec_except" /\ is_running) =>
            /\ pc'[t] = "results"
            /\ results'[t] = Tail(results[t])
            /\ attendance' = attendance
    ]_vars

\* C9 witness: record_attendance raised (DuplicateKeyError) in a running loop
C9_StorageExceptionWhileRunning ==
  \E t \in Threads : pc[t] = "rec_except" /\ is_running /\ rootAlive

\* C11: after the window-close handler has run, whether or not recognition
\* was running, the camera capture is released (video_stream is None) and the
\* global database connection is closed.
C11_HandlesReleasedOnShutdown ==
  ~rootAlive => (~video_stream /\ ~db_client)

\* C11 witness: the window was closed while recognition was running; the
\* video thread is still inside its loop.
C11_ClosedWhileRunning ==
  /\ ~rootAlive /\ ~is_running
  /\ \E t \in Threads : Alive(t)

\* C12: an employee's phone is unique but optional: add_employee succeeds for
\* every employee created without a phone number, and it fails with
\* ValueError, storing nothing, only when the given phone equals the phone of
\* an existing employee.
C12_PhoneUniqueButOptional ==
  [][add_call' /= add_call =>
       /\ (add_call'.name /= "" /\ add_call'.phone = NoPhone) =>
            /\ add_call'.outcome = "added"
            /\ Cardinality(employees_collection') = Cardinality(employees_collection) + 1
       /\ add_call'.outcome = "ValueError" =>
            /\ add_call'.phone /= NoPhone
            /\ \E r \in employees_collection : r.phone = add_call'.phone
            /\ employees_collection' = employees_collection
    ]_vars

\* C13: for the same loaded events the Spark path and the pandas path give
\* the same peak hours report: the same hours in the same order and, for
\* every hour, the same recognition_count, unique_people and avg_confidence;
\* and the report a call returned is that report, whichever path it took.
C13_SameReportOnBothPaths ==
  engine = "loaded" =>
    LET sp == SparkPeakHours(events_df)
        pd == PandasPeakHours(events_df)
    IN /\ Len(sp) = Len(pd)
       /\ \A k \in DOMAIN sp :
            /\ sp[k].hour = pd[k].hour
            /\ sp[k].recognition_count = pd[k].recognition_count
            /\ sp[k].unique_people = pd[k].unique_people
            /\ sp[k].avg_confidence = pd[k].avg_confidence
       /\ peak_path \in {"spark", "pandas", "fallback"} =>
            /\ Len(peak_hours) = Len(pd)
            /\ \A k \in DOMAIN pd :
                 /\ peak_hours[k].hour = pd[k].hour
                 /\ peak_hours[k].recognition_count = pd[k].recognition_count
                 /\ peak_hours[k].unique_people = pd[k].unique_people
                 /\ peak_hours[k].avg_confidence = pd[k].avg_confidence

\* C13 witness: the Spark path reported an hour with three recognitions of
\* one person, whose mean confidence is rounded (0.767).
C13_SparkReportWithRepeatedPerson ==
  /\ peak_path = "spark"
  /\ \E k \in DOMAIN peak_hours :
       /\ peak_hours[k].recognition_count = MaxEvents
       /\ peak_hours[k].unique_people = 1
       /\ peak_hours[k].avg_confidence = 767

\* C14: when Spark is unavailable at construction the engine is built with
\* use_spark false; when the Spark aggregation fails inside
\* analyze_peak_hours the call returns the pandas report and use_spark
\* becomes false; after construction use_spark never goes from false to true.
C14_FallsBackToPandas ==
  [][/\ (engine = "none" /\ engine' /= "none") =>
          (engine' = "built" /\ (use_spark' => spark'))
     /\ (engine /= "none" /\ ~use_spark) => ~use_spark'
     /\ (peak_path' = "fallback" /\ <<peak_path, peak_hours, use_spark>>' /=
                                      <<peak_path, peak_hours, use_spark>>) =>
          /\ ~use_spark'
          /\ Len(peak_hours') = Cardinality({events_df[i].hour : i \in DOMAIN events_df})
          /\ \A k \in DOMAIN peak_hours' :
               peak_hours'[k].recognition_count =
                 Cardinality({i \in DOMAIN events_df : events_df[i].hour = peak_hours'[k].hour})
    ]_vars

\* C14 witness: Spark was built, failed during analyze_peak_hours, the call
\* returned a report and use_spark is false.
C14_SparkFailedDuringAnalysis ==
  /\ peak_path = "fallback" /\ spark /\ ~use_spark
  /\ peak_hours /= <<>>

\* C15: on each processed frame the gating state is updated before the
\* recognition decision, and recognition runs on that frame exactly when
\* face_detection_active was true after that update and known encodings
\* exist: the frame on which motion is detected is itself recognised, and
\* without enrolled encodings recognition does not run.
C15_RecognitionFollowsGateUpdate ==
  [][\A t \in Threads :
       (pc[t] = "recog" /\ pc'[t] = "results") =>
         /\ recognized'[t] <=> (gate_after[t] /\ known_names /= <<>>)
         /\ (motion_detected[t] /\ known_names /= <<>>) => recognized'[t]
         /\ known_names = <<>> => ~recognized'[t]
    ]_vars

\* C16: last_recognition_time[name] changes only in a video thread for which
\* record_attendance has returned an id for the employee mapped to that name;
\* a recognition of a name without employee, and one whose write raises,
\* change neither the attendance collection nor last_recognition_time.
C16_StampOnlyAfterWrite ==
  [][/\ \A n \in AllNames :
          last_recognition_time'[n] /= last_recognition_time[n] =>
            \E t \in Threads :
              /\ pc[t] = "rec_done" /\ pc'[t] /= "rec_done"
              /\ Head(results[t]).name = n
              /\ n \in DOMAIN EmployeeMap
              /\ att_ret[t] /= NoId
              /\ \E r \in attendance :
                   r.id = att_ret[t] /\ r.employee_id = EmployeeMap[n]
     /\ \A t \in Threads :
          ( \/ /\ pc[t] = "process" /\ pc'[t] /= "process"
               /\ Head(results[t]).name \notin DOMAIN EmployeeMap
            \/ pc[t] = "rec_insert" /\ pc'[t] = "rec_except"
            \/ pc[t] = "rec_except" /\ pc'[t] /= "rec_except" )
          => /\ attendance' = attendance
             /\ last_recognition_time' = last_recognition_time
    ]_vars

\* C16 witness: the attendance write for a name raised, and the name has no
\* last_recognition_time.
C16_WriteRaisedNoStamp ==
  \E t \in Threads :
    /\ pc[t] = "rec_except" /\ rootAlive
    /\ last_recognition_time[Head(results[t]).name] = NoTime

\* C17: once stop_recognition has returned (and until recognition is started
\* again) no video thread reads the camera, writes attendance or updates the
\* video display or the recognition status.
C17_NothingAfterStop ==
  [][(~is_running /\ ~is_running') =>
       \A t \in Threads :
         /\ (pc[t] = "frame") => pc'[t] /= "recog"
         /\ (pc[t] = "rec_insert" /\ pc'[t] /= "rec_insert") => attendance' = attendance
         /\ (pc[t] = "recog" /\ pc'[t] /= "recog") =>
              (ui_ops' = ui_ops /\ results'[t] = <<>>)
         /\ (pc[t] \in {"rec_done", "rec_except"} /\ pc'[t] /= pc[t]) => ui_ops' = ui_ops
    ]_vars

\* C18: whenever a video thread passes known_encodings and known_names to
\* recognition the two lists come from the same load: same length, and entry
\* i of one belongs to entry i of the other, also while load_known_faces is
\* replacing them.
C18_ListsFromSameLoad ==
  \A t \in Threads :
    (pc[t] = "recog" /\ RecognitionRuns(t)) =>
      /\ Len(arg_encodings[t]) = Len(arg_names[t])
      /\ \A i \in 1..Len(arg_encodings[t]) : arg_encodings[t][i] = arg_names[t][i]

\* C19: after stop_recognition followed by start_recognition recognition is
\* not active until motion has been detected in the new session: the first
\* frame of a session, which never shows motion (the new MotionDetector has
\* no previous frame), leaves face_detection_active false.  Stated for a
\* session whose thread is the only video thread.
C19_NewSessionStartsInactive ==
  [][\A t \in Threads :
       ( /\ pc[t] = "frame" /\ pc'[t] = "recog"
         /\ motion_detector = "fresh"
         /\ Cardinality({u \in Threads : Alive(u)}) = 1 )
       => (~motion_detected'[t] /\ ~face_detection_active')
    ]_vars

\* C20: for each detected face recognize_faces takes the known encoding at
\* minimum distance; the face gets that encoding's name and confidence
\* 1 - distance if and only if that minimum distance is within the tolerance,
\* otherwise it is Unknown with confidence 0.0; a face never gets the name of
\* a known encoding that is not a nearest one.
C20_NearestWithinTolerance ==
  rec_pc = "done" =>
    /\ Len(rec_results) = Len(rec_faces)
    /\ \A f \in 1..Len(rec_faces) :
         LET d == rec_faces[f]
             r == rec_results[f]
             Nearest == {i \in 1..Len(d) : \A j \in 1..Len(d) : d[i] <= d[j]}
             Within == \E i \in Nearest : d[i] <= RecognitionTolerance
         IN /\ Within =>
                 \E i \in Nearest : /\ r.name = rec_names[i]
                                    /\ r.confidence = 10 - d[i]
            /\ ~Within => (r.name = Unknown /\ r.confidence = 0)
            /\ r.name /= Unknown => (Within /\ \E i \in Nearest : r.name = rec_names[i])

\* A face whose first known encoding is exactly at the tolerance and whose
\* second one is nearer got the second one's name
C20_NearerSecondEncodingNamed ==
  /\ rec_pc = "done"
  /\ Len(rec_faces) >= 1
  /\ Len(rec_names) = 2
  /\ rec_faces[1][1] = RecognitionTolerance
  /\ rec_faces[1][2] = RecognitionTolerance - 1
  /\ rec_results[1] = [name |-> rec_names[2], confidence |-> 10 - rec_faces[1][2]]

\* C21: link_face_to_employee for an employee id that does not exist raises
\* ValueError and changes no face sample and no employee; for an existing
\* employee it sets employee_id on every face sample with the given face name
\* (and on no other sample) and, when at least one sample was modified, the
\* employee's face_enrolled flag is true afterwards.
C21_LinkFaceToEmployee ==
  [][link_call' /= link_call =>
       LET id == link_call'.employee_id
           name == link_call'.face_name
       IN IF \A r \in employees_collection : r.employee_id /= id
          THEN /\ link_call'.outcome = "ValueError"
               /\ faces_collection' = faces_collection
               /\ employees_collection' = employees_collection
          ELSE /\ link_call'.outcome = "linked"
               /\ Len(faces_collection') = Len(faces_collection)
               /\ \A i \in DOMAIN faces_collection :
                    /\ faces_collection'[i].name = faces_collection[i].name
                    /\ faces_collection'[i].employee_id =
                         IF faces_collection[i].name = name
                         THEN id
                         ELSE faces_collection[i].employee_id
               /\ (\E i \in DOMAIN faces_collection :
                     /\ faces_collection[i].name = name
                     /\ faces_collection[i].employee_id /= id)
                  => \E r \in employees_collection' :
                       r.employee_id = id /\ r.face_enrolled
    ]_vars

\* A link moved every stored sample to an employee, who is now enrolled
C21_SamplesLinked ==
  /\ link_call.outcome = "linked"
  /\ link_call.modified = MaxSamples
  /\ \E r \in employees_collection :
       r.employee_id = link_call.employee_id /\ r.face_enrolled

\* C22: in every state of the employee and face collections an employee's
\* face_enrolled flag is true if and only if at least one face sample carries
\* that employee's employee_id.
C22_FlagIffSampleLinked ==
  \A r \in employees_collection :
    r.face_enrolled <=>
      \E i \in DOMAIN faces_collection : faces_collection[i].employee_id = r.employee_id

\* C23: enroll_person captures a sample only from a frame with exactly one
\* face and, after the first sample, only when more than sample_delay seconds
\* have passed since the previous captured sample; the number of captured
\* samples never exceeds num_samples; the loop ends when num_samples are
\* captured, a frame read fails or the user quits; and whenever enroll_person
\* is not in its loop the camera is released.
C23_EnrollmentCapture ==
  [][/\ (enroll_pc = "loop" /\ sample_count' /= sample_count) =>
          /\ sample_count' = sample_count + 1
          /\ enroll_frame'.ret
          /\ enroll_frame'.faces = 1
          /\ sample_count > 0 => enroll_frame'.time - last_sample_time > SampleDelay
          /\ last_sample_time' = enroll_frame'.time
     /\ sample_count' <= NumSamples
     /\ (enroll_pc = "loop" /\ enroll_frame' /= enroll_frame) =>
          ((sample_count' = NumSamples \/ ~enroll_frame'.ret \/ enroll_frame'.quit)
             => enroll_pc' /= "loop")
     /\ (enroll_pc = "loop" /\ enroll_pc' = "captured") =>
          (sample_count' = NumSamples \/ ~enroll_frame'.ret \/ enroll_frame'.quit)
     /\ enroll_pc' /= "loop" => ~enroll_cap'
    ]_vars

\* All samples were captured, then the loop ended with the camera released
C23_AllSamplesCaptured ==
  /\ enroll_pc = "captured"
  /\ sample_count = NumSamples
  /\ enroll_frame.captured
  /\ ~enroll_cap

\* C24: a stop() call made at any time after run() has been entered, the
\* 3-second start-up delay included, makes run() return, and running is false
\* once run() has returned.
C24_StopMakesRunReturn ==
  /\ sys_stop ~> (sys_pc = "returned")
  /\ [](sys_pc = "returned" => ~sys_running)

\* C25: VideoProcessor.running is false whenever processing has finished,
\* whether the loop ended on its own (read failure, quit key) or after
\* stop(); a caller waiting for running to become false is then eventually
\* released; and start() while running starts no second thread.
C25_RunningFalseWhenFinished ==
  /\ []((vp_started > 0 /\ vp_alive = 0) => ~vp_running)
  /\ (vp_wait = "waiting" /\ vp_alive = 0) ~> (vp_wait = "released")
  /\ [][(vp_running /\ vp_last' = "start") =>
         (vp_started' = vp_started /\ vp_alive' = vp_alive)]_vars

\* C26: between two close_database_manager calls every get_database_manager
\* call returns the same DatabaseManager instance, so at most one connection
\* is open at a time; a close when no manager exists changes nothing; and a
\* get after a close opens a fresh connection.
C26_SingletonManager ==
  /\ [](Cardinality(dm_returned) <= 1 /\ Cardinality(dm_open) <= 1)
  /\ [][dm_last' = "close_none" =>
         (db_manager' = db_manager /\ dm_open' = dm_open)]_vars
  /\ [][dm_last' = "created" =>
         (db_manager' \notin dm_open /\ db_manager' \in dm_open')]_vars

\* C27: remove_overlapping_faces returns faces of its input, no two of them
\* with intersection-over-union greater than 0.3; every input face that was
\* dropped has IoU greater than 0.3 with a kept face of greater or equal
\* confidence; and applying it to its own output changes nothing.
C27_OverlapRemoval ==
  /\ ov_pc \in {"once", "twice"} =>
       /\ \A i \in 1..Len(ov_filtered) :
            \E j \in 1..Len(ov_faces) : ov_filtered[i] = ov_faces[j]
       /\ Len(ov_filtered) <= Len(ov_faces)
       /\ \A i, j \in 1..Len(ov_filtered) :
            i /= j =>
              10 * Intersection(ov_filtered[i], ov_filtered[j])
                <= 3 * Union(ov_filtered[i], ov_filtered[j])
       /\ \A j \in 1..Len(ov_faces) :
            (\A i \in 1..Len(ov_filtered) : ov_filtered[i] /= ov_faces[j]) =>
              \E i \in 1..Len(ov_filtered) :
                /\ 10 * Intersection(ov_faces[j], ov_filtered[i])
                     > 3 * Union(ov_faces[j], ov_filtered[i])
                /\ ov_filtered[i].conf >= ov_faces[j].conf
  /\ ov_pc = "twice" => ov_again = ov_filtered

\* Of three detections one was dropped and two were kept, which overlap each
\* other with IoU exactly 0.3
C27_DroppedAndKeptAtThreshold ==
  /\ ov_pc = "twice"
  /\ Len(ov_faces) = 3
  /\ Len(ov_filtered) = 2
  /\ 10 * Intersection(ov_filtered[1], ov_filtered[2])
       = 3 * Union(ov_filtered[1], ov_filtered[2])

\* C28: MotionDetector.detect reports no motion on the first frame it gets;
\* on every later frame it reports motion if and only if the thresholded
\* difference between that frame and the frame of the call before has a
\* contour of area at least min_area; the previous frame is replaced on every
\* call, and a motion result does not carry over to the next frame.
C28_MotionAgainstPreviousFrame ==
  md_frame /= NoGray =>
    /\ md_prev = md_frame
    /\ md_before = NoGray => ~md_ret
    /\ md_before /= NoGray =>
         (md_ret <=>
            \E r \in Regions :
              /\ AbsDiff(md_before[r], md_frame[r]) > MotionThreshold
              /\ ContourArea(r) >= MinArea)

\* A later frame was reported as motion on the strength of a single contour
\* whose area is exactly min_area
C28_MotionAtMinArea ==
  /\ md_before /= NoGray
  /\ md_ret
  /\ {r \in Regions : AbsDiff(md_before[r], md_frame[r]) > MotionThreshold} = {2}
  /\ ContourArea(2) = MinArea

====
